---- MODULE Spec2Model ----
(***************************************************************************)
(* A model of lib/DownloadManager.js: the DownloadManager (temp-folder     *)
(* namer and factory), the five download jobs, and the Downloader that     *)
(* memoizes one job and owns the disposal of its folder.                   *)
(*                                                                         *)
(* One action is one run-to-completion piece of JavaScript: an API call    *)
(* made by the caller, or the continuation that runs when an awaited       *)
(* operation (mkdir, writeFile, a subprocess, an HTTP event) reports its   *)
(* outcome, up to the next await or return.  The `.then` callback of       *)
(* downloadIfNeeded is a microtask: it runs before any further I/O         *)
(* callback, but caller code may still run before it.                      *)
(***************************************************************************)
EXTENDS Naturals, Sequences, FiniteSets

\* ------------------------------------------------------------------ bounds

\* Downloaders created over the Manager's lifetime (SpecNames).
MaxDownloaders == 2
\* Images in the payload of a json job.
MaxImages == 2

\* --------------------------------------------------------------- constants

\* response.statusCode < 200 is a bad response.
MinGoodStatus == 200
\* response.statusCode >= 400 is a bad response.
MinBadStatus == 400

\* null / undefined: every nullable value of the model is a tuple.
NULL == <<>>

\* The folder the Manager was created on.
RootFolder == "/tmp/downloads"

\* Status codes a server may answer with: both edges of [200, 400).
Statuses == {199, 200, 399, 400, 404}

\* The arguments the factories are called with.
TextFileName == <<"main.tex">>
GitUrl == "git://host/repo.git"
FetchUrl == "http://host/file.tex"
FetchFileName == <<"file.tex">>

ValidDataUri == "data:image/png;base64,iVBORw=="
DataUris == {ValidDataUri, "not-a-data-uri"}

\* A parameter of an inkscape option, as JSON gives it: a string or a number
\* (its characters), or an object with the fields x0, y0, x1, y1.
StringParam(chars) == [type |-> "string", chars |-> chars, area |-> <<>>]
AreaParam(x0, y0, x1, y1) == [type |-> "object", chars |-> <<>>, area |-> <<x0, y0, x1, y1>>]

\* img.inkscape: absent, or the [option, parameter] entries of the object
\* in Object.keys order.
NoInkscape == [present |-> FALSE, entries |-> <<>>]
Inkscape(entries) == [present |-> TRUE, entries |-> entries]

InkscapeInputs ==
    { NoInkscape,
      Inkscape(<< <<"export-width", StringParam(<<"1", "0">>)>> >>),
      Inkscape(<< <<"export-width", StringParam(<<"n", "a", "n">>)>> >>),
      Inkscape(<< <<"verb", StringParam(<<"x">>)>> >>),
      Inkscape(<< <<"toString", StringParam(<<"x">>)>> >>) }

ImageName(i) == <<"img", i>>

Images == [imageDataUrl : DataUris, inkscape : InkscapeInputs]

SeqsUpTo(S, n) == UNION { [1..k -> S] : k \in 0..n }

JsonPayloads == SeqsUpTo(Images, MaxImages)

\* ------------------------------------------------------------------- state

VARIABLES
    _id,          \* DownloadManager._id
    downloaders,  \* the Downloaders created so far, in creation order
    disk,         \* the folders under RootFolder: folder path -> files in it
    rmPending,    \* folder deletions issued and not yet carried out
    rmFailed,     \* folders a deletion of which failed
    lastCall      \* the most recent API call of the caller and what it did

vars == <<_id, downloaders, disk, rmPending, rmFailed, lastCall>>

Ids == 1..Len(downloaders)

\* -------------------------------------------------------------- UserErrors

LoadingBadResponse(url, statusCode) == <<"failed to download URL", url, "got response status", statusCode>>

LoadingError(url) == <<"error while loading", url>>

GitCloneFailed(url) == <<"failed to clone git repository", url>>

TarballExtractionFailed == <<"failed to extract tarball">>

ImageDataUrlExtractionFailed(imgName) == <<"failed to save image", imgName, "expected image data URI">>

\* ---------------------------------------------------------- DownloadResult

DownloadResult(folderPath, userError) == [folderPath |-> folderPath, userError |-> userError]

\* ------------------------------------------------------------ job plumbing

\* An operation the job issued on its folder (or a file of it).
Op(op, file, flags) == [op |-> op, file |-> file, flags |-> flags]

Issue(r, op) == [r EXCEPT !.ops = Append(@, op)]

\* Mutation of Fulfill: the promise is never resolved.
FulfillNever(r, res) == r

\* Mutation of Fulfill: the last resolution counts.
FulfillLast(r, res) == [r EXCEPT !.resolved = TRUE, !.result = res]

\* Resolving the job's promise: only the first resolution counts.
Fulfill(r, res) ==
    IF r.resolved THEN r ELSE [r EXCEPT !.resolved = TRUE, !.result = res]

\* An awaited operation of the job reported a failure.
Failed(r) == [r EXCEPT !.ioFailed = TRUE]

\* `return new DownloadResult(...)` of the async job.
Return(r, res) == [Fulfill(r, res) EXCEPT !.pc = "done"]

RmdirOps == {"rmdir", "rmdirRecursive"}

\* The deletions of its folder a step of the job issued.
IssuedRmdirs(old, new) ==
    { new.jobFolder : k \in { j \in (Len(old.ops) + 1)..Len(new.ops) : new.ops[j].op \in RmdirOps } }

\* The then-callback of some settled job is queued: it runs before any
\* further I/O callback.
MicrotaskPending == \E d \in Ids : downloaders[d].resolved /\ ~downloaders[d].settled

\* The continuation of an awaited operation of d's job at position pc.
Awaiting(d, kind, pc) ==
    /\ ~MicrotaskPending
    /\ downloaders[d].kind = kind
    /\ downloaders[d].pc = pc

\* A step of d's job: the job's new state and the disk it leaves.
Step(d, new, newDisk) ==
    /\ downloaders' = [downloaders EXCEPT ![d] = new]
    /\ disk' = newDisk
    /\ rmPending' = rmPending \cup IssuedRmdirs(downloaders[d], new)
    /\ UNCHANGED <<_id, rmFailed, lastCall>>

Exists(path) == path \in DOMAIN disk

WithFolderOf(path, files) == [p \in DOMAIN disk \cup {path} |-> IF p = path THEN files ELSE disk[p]]

WithFolder(path) == WithFolderOf(path, {})

WithFile(path, file) == [disk EXCEPT ![path] = @ \cup {file}]

WithoutFolder(path) == [p \in DOMAIN disk \ {path} |-> disk[p]]

\* utils.mkdir: may fail; cannot succeed on a path that exists.
MkdirOutcomes(path) == IF Exists(path) THEN {FALSE} ELSE {TRUE, FALSE}

\* utils.writeFile: may fail; cannot succeed in a folder that is gone.
WriteOutcomes(path) == IF Exists(path) THEN {TRUE, FALSE} ELSE {FALSE}

\* createFolder(folderPath), as issued
CreateFolder(r) == [Issue(r, Op("mkdir", NULL, <<>>)) EXCEPT !.pc = "mkdir"]

\* ----------------------------------------------------------- DownloadManager

\* The decimal digits of n, as 'tmp_' + id writes them.
RECURSIVE Decimal(_)
Decimal(n) == IF n < 10 THEN <<n>> ELSE Append(Decimal(n \div 10), n % 10)

\* Mutation of NextId: the counter is read and never incremented.
NextIdStuck == _id

\* ++this._id
NextId == _id + 1

\* path.join(this._folderPath, 'tmp_' + id)
NextName == <<RootFolder, "tmp_">> \o Decimal(NextId)

\* Mutation of NewDownloader: the job is started at construction.
NewDownloaderEager(kind, folderPath, url, images) ==
    CreateFolder(
    [ kind |-> kind, jobFolder |-> folderPath, url |-> url, images |-> images,
      folderPath |-> NULL, userError |-> NULL, _disposed |-> FALSE,
      _downloadPromise |-> 0,
      pc |-> "idle", idx |-> 0, events |-> {}, statusCode |-> 0,
      resolved |-> FALSE, result |-> DownloadResult(NULL, NULL), settled |-> FALSE,
      jobCalls |-> 0, returned |-> {}, ops |-> <<>>, ioFailed |-> FALSE, disposeRm |-> 0 ])

\* new Downloader(job): the constructor's fields (folderPath, userError,
\* _disposed; _downloadPromise is 0 while unset), the job's closure (kind,
\* jobFolder, url, images), the job's position (pc, idx, events, statusCode),
\* its promise (resolved, result), whether the then-callback ran (settled),
\* and what happened so far: the invocations of the job (jobCalls), the
\* promises downloadIfNeeded returned (returned), the operations the job
\* issued (ops), whether one reported a failure (ioFailed), the deletions
\* dispose issued (disposeRm).
NewDownloader(kind, folderPath, url, images) ==
    [ kind |-> kind, jobFolder |-> folderPath, url |-> url, images |-> images,
      folderPath |-> NULL, userError |-> NULL, _disposed |-> FALSE,
      _downloadPromise |-> 0,
      pc |-> "idle", idx |-> 0, events |-> {}, statusCode |-> 0,
      resolved |-> FALSE, result |-> DownloadResult(NULL, NULL), settled |-> FALSE,
      jobCalls |-> 0, returned |-> {}, ops |-> <<>>, ioFailed |-> FALSE, disposeRm |-> 0 ]

\* var folderPath = this._nextName(); return new Downloader(...), called
\* while fewer than `limit` Downloaders were created.
Create(limit, kind, url, images) ==
    /\ Len(downloaders) < limit
    /\ _id' = NextId
    /\ downloaders' = Append(downloaders, NewDownloader(kind, NextName, url, images))
    /\ lastCall' = [op |-> "create", d |-> Len(downloaders) + 1, noop |-> FALSE]
    /\ UNCHANGED <<disk, rmPending, rmFailed>>

createTextDownloader(limit) == Create(limit, "text", "", <<>>)

createGitDownloader(limit) == Create(limit, "git", GitUrl, <<>>)

createURLDownloader(limit) == Create(limit, "url", FetchUrl, <<>>)

createTarballExtractor(limit) == Create(limit, "tarball", "", <<>>)

createJsonDownloader(limit) == \E jsonData \in JsonPayloads : Create(limit, "json", "", jsonData)

\* ----------------------------------------------------------------- text job

TextFolderCreated(d) ==
    /\ Awaiting(d, "text", "mkdir")
    /\ \E success \in MkdirOutcomes(downloaders[d].jobFolder) :
        LET r == downloaders[d] IN
        IF ~success
        THEN Step(d, Return(Failed(r), DownloadResult(NULL, NULL)), disk)
        ELSE Step(d, [Issue(r, Op("writeFile", TextFileName, <<>>)) EXCEPT !.pc = "write"],
                  WithFolder(r.jobFolder))

TextFileWritten(d) ==
    /\ Awaiting(d, "text", "write")
    /\ \E fileCreated \in WriteOutcomes(downloaders[d].jobFolder) :
        LET r == downloaders[d] IN
        IF ~fileCreated
        THEN Step(d, Return(Issue(Failed(r), Op("rmdir", NULL, <<>>)), DownloadResult(NULL, NULL)), disk)
        ELSE Step(d, Return(r, DownloadResult(r.jobFolder, NULL)),
                  WithFile(r.jobFolder, TextFileName))

\* ------------------------------------------------------------------ git job

\* Mutation of GitExistsChecked: the outcome of the check is ignored.
GitExistsIgnored(d) ==
    /\ Awaiting(d, "git", "exists")
    /\ LET r == downloaders[d] IN
       Step(d, [Issue(r, Op("git clone", NULL, <<>>)) EXCEPT !.pc = "clone"], disk)

\* The callback of utils.exists
GitExistsChecked(d) ==
    /\ Awaiting(d, "git", "exists")
    /\ LET r == downloaders[d] IN
       IF Exists(r.jobFolder)
       THEN Step(d, Return(r, DownloadResult(NULL, NULL)), disk)
       ELSE Step(d, [Issue(r, Op("git clone", NULL, <<>>)) EXCEPT !.pc = "clone"], disk)

\* The callback of exec('git', ['clone', ...]).  A failed clone may or may
\* not have left something at the target path.
GitCloneExited(d) ==
    /\ Awaiting(d, "git", "clone")
    /\ \E err \in BOOLEAN, left \in BOOLEAN :
        LET r == downloaders[d] IN
        IF err
        THEN Step(d, [Fulfill(Failed(r), DownloadResult(NULL, GitCloneFailed(r.url))) EXCEPT !.pc = "done"],
                  IF left THEN WithFolder(r.jobFolder) ELSE disk)
        ELSE /\ left
             /\ Step(d, [Fulfill(r, DownloadResult(r.jobFolder, NULL)) EXCEPT !.pc = "done"],
                     WithFolderOf(r.jobFolder, {<<".git">>}))

\* ------------------------------------------------------------------ url job

URLFolderCreated(d) ==
    /\ Awaiting(d, "url", "mkdir")
    /\ \E success \in MkdirOutcomes(downloaders[d].jobFolder) :
        LET r == downloaders[d] IN
        IF ~success
        THEN Step(d, Return(Failed(r), DownloadResult(NULL, NULL)), disk)
        ELSE Step(d, [Issue(r, Op("request.get", FetchFileName, <<>>)) EXCEPT !.pc = "request"],
                  WithFolder(r.jobFolder))

\* Mutation of IsBadStatus: both comparisons off by one.
IsBadStatusShifted(statusCode) == statusCode <= MinGoodStatus \/ statusCode > MinBadStatus

\* response.statusCode < 200 || response.statusCode >= 400
IsBadStatus(statusCode) == statusCode < MinGoodStatus \/ statusCode >= MinBadStatus

\* Mutation of BadResponseResult: the folder is passed with the error.
BadResponseResultKeepingFolder(r, statusCode) ==
    DownloadResult(r.jobFolder, LoadingBadResponse(r.url, statusCode))

\* fulfill(new DownloadResult(null, error)) of the response handler
BadResponseResult(r, statusCode) ==
    DownloadResult(NULL, LoadingBadResponse(r.url, statusCode))

\* .on('response', ...): the first event of a request that got an answer.
URLResponse(d) ==
    /\ Awaiting(d, "url", "request")
    /\ downloaders[d].events = {}
    /\ \E statusCode \in Statuses :
        LET r == [downloaders[d] EXCEPT !.events = @ \cup {"response"}, !.statusCode = statusCode] IN
        IF IsBadStatus(statusCode)
        THEN Step(d, Fulfill(r, BadResponseResult(r, statusCode)), disk)
        ELSE Step(d, r, disk)

\* utils.rmdirRecursive(folderPath) of the error handler
URLErrorDeleting(r) == Issue(r, Op("rmdirRecursive", NULL, <<>>))

\* .on('error', ...): at most once, before or after the response, before
\* or after the write stream finished.
URLError(d) ==
    /\ Awaiting(d, "url", "request")
    /\ "error" \notin downloaders[d].events
    /\ LET r == [downloaders[d] EXCEPT !.events = @ \cup {"error"}] IN
       Step(d, Fulfill(URLErrorDeleting(r), DownloadResult(NULL, LoadingError(r.url))), disk)

\* fileHandle.on('finish', ...): at most once, after the response was piped.
URLFinish(d) ==
    /\ Awaiting(d, "url", "request")
    /\ "response" \in downloaders[d].events
    /\ "finish" \notin downloaders[d].events
    /\ LET r == [downloaders[d] EXCEPT !.events = @ \cup {"finish"}] IN
       Step(d, Fulfill(r, DownloadResult(r.jobFolder, NULL)),
            IF Exists(r.jobFolder) THEN WithFile(r.jobFolder, FetchFileName) ELSE disk)

\* -------------------------------------------------------------- tarball job

TarballFolderCreated(d) ==
    /\ Awaiting(d, "tarball", "mkdir")
    /\ \E success \in MkdirOutcomes(downloaders[d].jobFolder) :
        LET r == downloaders[d] IN
        IF ~success
        THEN Step(d, Return(Failed(r), DownloadResult(NULL, NULL)), disk)
        ELSE Step(d, [Issue(r, Op("tar", NULL, <<>>)) EXCEPT !.pc = "tar"],
                  WithFolder(r.jobFolder))

\* Mutation of TarballExtracted: a failed extraction keeps the folder.
TarballExtractedKeeping(d) ==
    /\ Awaiting(d, "tarball", "tar")
    /\ \E err \in BOOLEAN :
        LET r == downloaders[d] IN
        IF err
        THEN Step(d, [Fulfill(Failed(r), DownloadResult(NULL, TarballExtractionFailed))
                        EXCEPT !.pc = "done"],
                  disk)
        ELSE Step(d, [Fulfill(r, DownloadResult(r.jobFolder, NULL)) EXCEPT !.pc = "done"],
                  IF Exists(r.jobFolder) THEN WithFile(r.jobFolder, <<"extracted">>) ELSE disk)

\* The callback of exec('tar', ['-xf', tarballPath, '-C', folderPath])
TarballExtracted(d) ==
    /\ Awaiting(d, "tarball", "tar")
    /\ \E err \in BOOLEAN :
        LET r == downloaders[d] IN
        IF err
        THEN Step(d, [Fulfill(Issue(Failed(r), Op("rmdirRecursive", NULL, <<>>)),
                              DownloadResult(NULL, TarballExtractionFailed)) EXCEPT !.pc = "done"],
                  disk)
        ELSE Step(d, [Fulfill(r, DownloadResult(r.jobFolder, NULL)) EXCEPT !.pc = "done"],
                  IF Exists(r.jobFolder) THEN WithFile(r.jobFolder, <<"extracted">>) ELSE disk)

\* ----------------------------------------------------------------- json job

\* dataUriRE().exec(img.imageDataUrl): the match (the whole, the mime type,
\* the encoding, the data), or null
dataUriRE_exec(imageDataUrl) ==
    IF imageDataUrl = ValidDataUri
    THEN <<imageDataUrl, "image/png", "base64", "iVBORw==">>
    ELSE NULL

DigitChars == {"0", "1", "2", "3", "4", "5", "6", "7", "8", "9"}

DigitValue(c) ==
    CASE c = "0" -> 0 [] c = "1" -> 1 [] c = "2" -> 2 [] c = "3" -> 3 [] c = "4" -> 4
      [] c = "5" -> 5 [] c = "6" -> 6 [] c = "7" -> 7 [] c = "8" -> 8 [] c = "9" -> 9

RECURSIVE ParseDigits(_, _, _)
ParseDigits(chars, i, acc) ==
    IF i > Len(chars) \/ chars[i] \notin DigitChars
    THEN acc
    ELSE ParseDigits(chars, i + 1, 10 * acc + DigitValue(chars[i]))

\* parseInt(x): the number its leading digits write, or NaN (NULL) when it
\* has none; the number is boxed, <<n>>.
ParseInt(chars) ==
    IF Len(chars) = 0 \/ chars[1] \notin DigitChars THEN NULL ELSE <<ParseDigits(chars, 1, 0)>>

IsNaN(n) == n = NULL

Threw == [threw |-> TRUE, flag |-> <<>>]
Built(flag) == [threw |-> FALSE, flag |-> flag]

\* supportedInkscapeOptions['export-png']
ExportPng(folderPath, pngFileName) ==
    IF pngFileName.type # "string" THEN Threw
    ELSE Built(<<"--export-png=", folderPath, "/", pngFileName.chars>>)

\* supportedInkscapeOptions['export-area']
ExportArea(area) ==
    LET field(k) == IF area.type = "object" THEN ParseInt(area.area[k]) ELSE NULL IN
    IF \E k \in 1..4 : IsNaN(field(k)) THEN Threw
    ELSE Built(<<"--export-area=", field(1)[1], ":", field(2)[1], ":", field(3)[1], ":", field(4)[1]>>)

\* Mutation of ExportWidth: NaN is not looked for.
ExportWidthUnchecked(width) ==
    LET w == ParseInt(width.chars) IN
    Built(<<"--export-width=", IF IsNaN(w) THEN 0 ELSE w[1]>>)

\* supportedInkscapeOptions['export-width']
ExportWidth(width) ==
    LET w == ParseInt(width.chars) IN
    IF IsNaN(w) THEN Threw ELSE Built(<<"--export-width=", w[1]>>)

\* supportedInkscapeOptions['export-height']
ExportHeight(height) ==
    LET h == ParseInt(height.chars) IN
    IF IsNaN(h) THEN Threw ELSE Built(<<"--export-height=", h[1]>>)

\* The functions every object inherits from Object.prototype.
InheritedFunctions ==
    {"constructor", "toString", "toLocaleString", "valueOf", "hasOwnProperty",
     "isPrototypeOf", "propertyIsEnumerable"}

\* supportedInkscapeOptions[option](img.inkscape[option]): calling what is
\* not a function throws a TypeError.
CallOption(folderPath, option, param) ==
    CASE option = "export-png" -> ExportPng(folderPath, param)
      [] option = "export-area" -> ExportArea(param)
      [] option = "export-width" -> ExportWidth(param)
      [] option = "export-height" -> ExportHeight(param)
      [] option \in InheritedFunctions -> Built(<<"Object.prototype", option>>)
      [] OTHER -> Threw

\* The loop over Object.keys(img.inkscape) from entry k: the flags pushed,
\* or the first throw.
RECURSIVE BuildOptions(_, _, _, _)
BuildOptions(folderPath, entries, k, jsonInkscapeOptions) ==
    IF k > Len(entries)
    THEN [threw |-> FALSE, flags |-> jsonInkscapeOptions]
    ELSE LET b == CallOption(folderPath, entries[k][1], entries[k][2]) IN
         IF b.threw
         THEN [threw |-> TRUE, flags |-> jsonInkscapeOptions]
         ELSE BuildOptions(folderPath, entries, k + 1, Append(jsonInkscapeOptions, b.flag))

\* Mutation of JsonInkscapeFrom: inkscape runs on every image.
JsonInkscapeFromEvery(r, i) ==
    IF i > Len(r.images)
    THEN Return(r, DownloadResult(r.jobFolder, NULL))
    ELSE [Issue(r, Op("inkscape", ImageName(i),
                      << <<"--without-gui">>, <<"--file=", r.jobFolder, ImageName(i)>> >>))
            EXCEPT !.pc = "inkscape", !.idx = i]

\* The second loop from image i, up to the next await or return.
RECURSIVE JsonInkscapeFrom(_, _)
JsonInkscapeFrom(r, i) ==
    IF i > Len(r.images)
    THEN Return(r, DownloadResult(r.jobFolder, NULL))
    ELSE IF ~r.images[i].inkscape.present
    THEN JsonInkscapeFrom(r, i + 1)
    ELSE LET built == BuildOptions(r.jobFolder, r.images[i].inkscape.entries, 1, <<>>)
             options == << <<"--without-gui">>, <<"--file=", r.jobFolder, ImageName(i)>> >>
         IN  IF built.threw
             THEN Return(r, DownloadResult(NULL, NULL))
             ELSE [Issue(r, Op("inkscape", ImageName(i), options \o built.flags))
                     EXCEPT !.pc = "inkscape", !.idx = i]

\* Mutation of JsonBadImage: the folder is not deleted.
JsonBadImageKeepingFolder(r, i) ==
    Return(r, DownloadResult(NULL, ImageDataUrlExtractionFailed(ImageName(i))))

\* What the first loop does on a malformed data URI.
JsonBadImage(r, i) ==
    Return(Issue(r, Op("rmdirRecursive", NULL, <<>>)),
           DownloadResult(NULL, ImageDataUrlExtractionFailed(ImageName(i))))

\* The first loop from image i, up to the next await or return.
JsonImagesFrom(r, i) ==
    IF i > Len(r.images)
    THEN JsonInkscapeFrom(r, 1)
    ELSE IF dataUriRE_exec(r.images[i].imageDataUrl) = NULL
    THEN JsonBadImage(r, i)
    ELSE [Issue(r, Op("writeFile", ImageName(i), <<>>)) EXCEPT !.pc = "image", !.idx = i]

JsonFolderCreated(d) ==
    /\ Awaiting(d, "json", "mkdir")
    /\ \E success \in MkdirOutcomes(downloaders[d].jobFolder) :
        LET r == downloaders[d] IN
        IF ~success
        THEN Step(d, Return(Failed(r), DownloadResult(NULL, NULL)), disk)
        ELSE Step(d, [Issue(r, Op("writeFile", TextFileName, <<>>)) EXCEPT !.pc = "write"],
                  WithFolder(r.jobFolder))

JsonTextWritten(d) ==
    /\ Awaiting(d, "json", "write")
    /\ \E fileCreated \in WriteOutcomes(downloaders[d].jobFolder) :
        LET r == downloaders[d] IN
        IF ~fileCreated
        THEN Step(d, Return(Issue(Failed(r), Op("rmdir", NULL, <<>>)), DownloadResult(NULL, NULL)), disk)
        ELSE Step(d, JsonImagesFrom(r, 1), WithFile(r.jobFolder, TextFileName))

JsonImageWritten(d) ==
    /\ Awaiting(d, "json", "image")
    /\ \E fileCreated \in WriteOutcomes(downloaders[d].jobFolder) :
        LET r == downloaders[d] IN
        IF ~fileCreated
        THEN Step(d, Return(Issue(Failed(r), Op("rmdirRecursive", NULL, <<>>)),
                            DownloadResult(NULL, NULL)),
                  disk)
        ELSE Step(d, JsonImagesFrom(r, r.idx + 1), WithFile(r.jobFolder, ImageName(r.idx)))

\* Mutation of JsonInkscapeExited: a failed run deletes the folder.
JsonInkscapeExitedDeleting(d) ==
    /\ Awaiting(d, "json", "inkscape")
    /\ \E success \in BOOLEAN :
        LET r == downloaders[d] IN
        IF ~success
        THEN Step(d, Return(Issue(Failed(r), Op("rmdirRecursive", NULL, <<>>)),
                            DownloadResult(NULL, NULL)),
                  disk)
        ELSE Step(d, JsonInkscapeFrom(r, r.idx + 1), disk)

\* The outcome of utils.executeCommand('/usr/bin/inkscape', ...)
JsonInkscapeExited(d) ==
    /\ Awaiting(d, "json", "inkscape")
    /\ \E success \in BOOLEAN :
        LET r == downloaders[d] IN
        IF ~success
        THEN Step(d, Return(Failed(r), DownloadResult(NULL, NULL)), disk)
        ELSE Step(d, JsonInkscapeFrom(r, r.idx + 1), disk)

\* --------------------------------------------------------------- Downloader

\* NotStarted -> Running -> Completed, as the fields tell it.
State(r) ==
    IF r._downloadPromise = 0 THEN "NotStarted"
    ELSE IF ~r.settled THEN "Running"
    ELSE "Completed"

\* this._downloadJob.call(null), up to the job's first await
StartJob(r) ==
    IF r.kind = "git"
    THEN [Issue(r, Op("exists", NULL, <<>>)) EXCEPT !.pc = "exists"]
    ELSE CreateFolder(r)

\* Mutation of HasDownloadPromise: the cached promise is never found.
NeverMemoized(r) == FALSE

\* if (this._downloadPromise)
HasDownloadPromise(r) == r._downloadPromise # 0

downloadIfNeeded(d) ==
    LET r == downloaders[d]
        promise == r.jobCalls + 1
    IN  /\ downloaders' =
              [downloaders EXCEPT ![d] =
                  IF HasDownloadPromise(r)
                  THEN [r EXCEPT !.returned = @ \cup {r._downloadPromise}]
                  ELSE [StartJob(r) EXCEPT !.jobCalls = @ + 1,
                                            !._downloadPromise = promise,
                                            !.returned = @ \cup {promise}]]
        /\ lastCall' = [op |-> "downloadIfNeeded", d |-> d, noop |-> HasDownloadPromise(r)]
        /\ UNCHANGED <<_id, disk, rmPending, rmFailed>>

\* Mutation of StoreResult: a failed job is forgotten, to run again.
StoreResultForgettingFailure(r) ==
    [r EXCEPT !.folderPath = r.result.folderPath,
              !.userError = r.result.userError,
              !.settled = r.result.folderPath # NULL,
              !._downloadPromise = IF r.result.folderPath = NULL THEN 0 ELSE @,
              !.resolved = r.result.folderPath # NULL]

\* this.folderPath = result.folderPath; this.userError = result.userError;
StoreResult(r) ==
    [r EXCEPT !.folderPath = r.result.folderPath,
              !.userError = r.result.userError,
              !.settled = TRUE]

\* The then-callback of downloadIfNeeded, run once the job's promise is
\* resolved.
Settle(d) ==
    LET r == downloaders[d] IN
    /\ r.resolved
    /\ ~r.settled
    /\ downloaders' = [downloaders EXCEPT ![d] = StoreResult(r)]
    /\ UNCHANGED <<_id, disk, rmPending, rmFailed, lastCall>>

\* this._dislabedCleanup: a field nothing ever sets
DislabedCleanup(r) == FALSE

\* Mutation of AlreadyDisposed: the flag is not looked at.
NeverDisposed(r) == FALSE

\* if (this._disposed) return;
AlreadyDisposed(r) == r._disposed

\* Mutation of NothingToCleanup: the folder path is not looked at.
AlwaysCleanup(r) == FALSE

\* if (!this.folderPath) return;
NothingToCleanup(r) == r.folderPath = NULL

dispose(d) ==
    LET r == downloaders[d]
        deletes == ~AlreadyDisposed(r) /\ ~DislabedCleanup(r) /\ ~NothingToCleanup(r)
    IN  /\ downloaders' =
              [downloaders EXCEPT ![d] =
                  IF AlreadyDisposed(r) THEN r
                  ELSE [r EXCEPT !._disposed = TRUE,
                                 !.disposeRm = IF deletes THEN @ + 1 ELSE @]]
        /\ rmPending' = IF deletes THEN rmPending \cup {r.folderPath} ELSE rmPending
        /\ lastCall' = [op |-> "dispose", d |-> d, noop |-> AlreadyDisposed(r)]
        /\ UNCHANGED <<_id, disk, rmFailed>>

\* A deletion (utils.rmdir, utils.rmdirRecursive) is carried out: it may
\* fail, and its outcome is only logged.
RmdirDone(path) ==
    /\ ~MicrotaskPending
    /\ path \in rmPending
    /\ rmPending' = rmPending \ {path}
    /\ \E success \in BOOLEAN :
        /\ disk' = IF success /\ Exists(path) THEN WithoutFolder(path) ELSE disk
        /\ rmFailed' = IF success THEN rmFailed ELSE rmFailed \cup {path}
    /\ UNCHANGED <<_id, downloaders, lastCall>>

\* ------------------------------------------------------------ specification

\* DownloadManager.create(folderPath): the root folder is empty.
Init ==
    /\ _id = 0
    /\ downloaders = <<>>
    /\ disk = <<>>
    /\ rmPending = {}
    /\ rmFailed = {}
    /\ lastCall = [op |-> "none", d |-> 0, noop |-> FALSE]

Next ==
    \/ createTextDownloader(1)
    \/ createGitDownloader(1)
    \/ createURLDownloader(1)
    \/ createTarballExtractor(1)
    \/ createJsonDownloader(1)
    \/ \E d \in Ids : downloadIfNeeded(d)
    \/ \E d \in Ids : Settle(d)
    \/ \E d \in Ids : dispose(d)
    \/ \E d \in Ids : TextFolderCreated(d)
    \/ \E d \in Ids : TextFileWritten(d)
    \/ \E d \in Ids : GitExistsChecked(d)
    \/ \E d \in Ids : GitCloneExited(d)
    \/ \E d \in Ids : URLFolderCreated(d)
    \/ \E d \in Ids : URLResponse(d)
    \/ \E d \in Ids : URLError(d)
    \/ \E d \in Ids : URLFinish(d)
    \/ \E d \in Ids : TarballFolderCreated(d)
    \/ \E d \in Ids : TarballExtracted(d)
    \/ \E d \in Ids : JsonFolderCreated(d)
    \/ \E d \in Ids : JsonTextWritten(d)
    \/ \E d \in Ids : JsonImageWritten(d)
    \/ \E d \in Ids : JsonInkscapeExited(d)
    \/ \E path \in rmPending : RmdirDone(path)

\* The life of one Downloader, of any of the five kinds: the caller creates
\* it, and calls downloadIfNeeded and dispose on it in any order and any
\* number of times, while its job and the deletions proceed.  The jobs of
\* different Downloaders share no variable and work on different folders
\* (SpecNames), so one Downloader shows what a job does.
Spec == Init /\ [][Next]_vars

NextNames ==
    \/ createTextDownloader(MaxDownloaders)
    \/ \E d \in Ids : downloadIfNeeded(d)
    \/ \E d \in Ids : Settle(d)
    \/ \E d \in Ids : dispose(d)
    \/ \E d \in Ids : TextFolderCreated(d)
    \/ \E d \in Ids : TextFileWritten(d)
    \/ \E path \in rmPending : RmdirDone(path)

\* Several Downloaders of one Manager, their creations, jobs and disposals
\* interleaved; the caller creates text Downloaders only.
SpecNames == Init /\ [][NextNames]_vars

\* An awaited operation of a job reports its outcome.
JobStep ==
    \E d \in Ids :
        \/ TextFolderCreated(d) \/ TextFileWritten(d)
        \/ GitExistsChecked(d) \/ GitCloneExited(d)
        \/ URLFolderCreated(d) \/ URLResponse(d) \/ URLError(d) \/ URLFinish(d)
        \/ TarballFolderCreated(d) \/ TarballExtracted(d)
        \/ JsonFolderCreated(d) \/ JsonTextWritten(d) \/ JsonImageWritten(d)
        \/ JsonInkscapeExited(d)

\* Spec, where moreover every awaited operation eventually reports an
\* outcome, every queued then-callback eventually runs, and every deletion
\* issued is eventually carried out.  The caller is free to call or not.
SpecLive ==
    /\ Init
    /\ [][Next]_vars
    /\ WF_vars(JobStep)
    /\ WF_vars(\E d \in Ids : Settle(d))
    /\ WF_vars(\E path \in rmPending : RmdirDone(path))

\* Something other than this Manager puts a folder at the path of a git
\* Downloader whose clone was not started yet: the conflict the existence
\* check of the git job looks for.
ForeignFolder(d) ==
    /\ downloaders[d].kind = "git"
    /\ downloaders[d].pc \in {"idle", "exists"}
    /\ ~Exists(downloaders[d].jobFolder)
    /\ disk' = WithFolderOf(downloaders[d].jobFolder, {<<"foreign">>})
    /\ UNCHANGED <<_id, downloaders, rmPending, rmFailed, lastCall>>

NextGit ==
    \/ createGitDownloader(MaxDownloaders)
    \/ \E d \in Ids : downloadIfNeeded(d)
    \/ \E d \in Ids : Settle(d)
    \/ \E d \in Ids : dispose(d)
    \/ \E d \in Ids : GitExistsChecked(d)
    \/ \E d \in Ids : GitCloneExited(d)
    \/ \E d \in Ids : ForeignFolder(d)
    \/ \E path \in rmPending : RmdirDone(path)

\* Git Downloaders of one Manager whose root folder is also written by
\* others: a path may exist before the job of its Downloader looks at it.
SpecGit == Init /\ [][NextGit]_vars

\* ------------------------------------------------------------------ claims

FilesWritten(r) ==
    LET writes == SelectSeq(r.ops, LAMBDA o : o.op = "writeFile")
    IN  [k \in 1..Len(writes) |-> writes[k].file]

HasOp(r, op) == \E k \in 1..Len(r.ops) : r.ops[k].op = op

IsPrefix(s, t) == Len(s) <= Len(t) /\ \A k \in 1..Len(s) : s[k] = t[k]

\* C1: however often and whenever downloadIfNeeded is called on a Downloader
\* (before the job ran, while it runs, after it settled), its job is invoked
\* exactly once, every call returns the one promise of that invocation, and
\* what that promise yields is the job's result.
C1_JobInvokedOnce ==
    \A d \in Ids :
        LET r == downloaders[d] IN
        /\ r.jobCalls <= 1
        /\ (r.returned = {} => r.jobCalls = 0)
        /\ (r.returned # {} => r.jobCalls = 1 /\ r.returned = {r._downloadPromise})
        /\ (r.settled => r.folderPath = r.result.folderPath /\ r.userError = r.result.userError)

\* A call made after the job settled found the promise and returned it.
C1_Witness ==
    \E d \in Ids :
        /\ lastCall = [op |-> "downloadIfNeeded", d |-> d, noop |-> TRUE]
        /\ State(downloaders[d]) = "Completed"
        /\ downloaders[d].jobCalls = 1

\* C2: the Manager's counter only increases; every creation increments it by
\* one and allocates RootFolder/tmp_<counter>; so the folders allocated to
\* distinct Downloaders differ, whatever was triggered or disposed meanwhile.
C2_NamesNeverReused ==
    [][ /\ _id' >= _id
        /\ Len(downloaders') > Len(downloaders) =>
              /\ _id' = _id + 1
              /\ downloaders'[Len(downloaders')].jobFolder = <<RootFolder, "tmp_">> \o Decimal(_id')
        /\ \A d1, d2 \in 1..Len(downloaders') :
              d1 # d2 => downloaders'[d1].jobFolder # downloaders'[d2].jobFolder ]_vars

\* A Downloader is created after an earlier one was disposed and its folder
\* deleted.
C2_Witness ==
    \E d1, d2 \in Ids :
        /\ d1 < d2
        /\ downloaders[d1]._disposed
        /\ downloaders[d1].disposeRm = 1
        /\ ~Exists(downloaders[d1].jobFolder)
        /\ downloaders[d1].jobFolder \notin rmPending
        /\ lastCall = [op |-> "create", d |-> d2, noop |-> FALSE]

ValidShape(folderPath, userError) == folderPath = NULL \/ userError = NULL

\* C3: the result of every job, and the folderPath/userError pair stored on
\* every Downloader, never holds both a folder path and a user error; a folder
\* path held is the Downloader's own folder.
C3_ResultShapes ==
    \A d \in Ids :
        LET r == downloaders[d] IN
        /\ ValidShape(r.result.folderPath, r.result.userError)
        /\ ValidShape(r.folderPath, r.userError)
        /\ r.result.folderPath \in {NULL, r.jobFolder}
        /\ r.folderPath \in {NULL, r.jobFolder}

\* A url job settled with a user error, and its write stream finished after.
C3_Witness ==
    \E d \in Ids :
        /\ downloaders[d].kind = "url"
        /\ downloaders[d].settled
        /\ downloaders[d].userError # NULL
        /\ downloaders[d].folderPath = NULL
        /\ "finish" \in downloaders[d].events

\* C4: dispose issues the deletion of the folder at most once per Downloader,
\* and a dispose call on a disposed Downloader changes nothing.
C4_DisposeIdempotent ==
    [][ \A d \in Ids :
            /\ downloaders'[d].disposeRm <= 1
            /\ (dispose(d) /\ downloaders[d]._disposed) =>
                  UNCHANGED <<_id, downloaders, disk, rmPending, rmFailed>> ]_vars

\* A second dispose call on a Downloader whose first dispose deleted.
C4_Witness ==
    \E d \in Ids :
        /\ lastCall = [op |-> "dispose", d |-> d, noop |-> TRUE]
        /\ downloaders[d].disposeRm = 1

\* C5: a dispose call on a Downloader that is not Completed with success
\* issues no deletion and leaves the disk alone; the first dispose call on a
\* Downloader Completed with success issues one deletion, of that
\* Downloader's folder; and a deletion that fails changes nothing the caller
\* sees.
C5_DisposeDeletesOnlyProducedFolder ==
    [][ /\ \A d \in Ids :
              dispose(d) =>
                  LET r == downloaders[d]
                      produced == State(r) = "Completed" /\ r.result.folderPath # NULL
                  IN  /\ ~produced =>
                            /\ UNCHANGED <<disk, rmPending, rmFailed>>
                            /\ downloaders'[d].disposeRm = r.disposeRm
                      /\ (produced /\ ~r._disposed) =>
                            /\ rmPending' = rmPending \cup {r.jobFolder}
                            /\ downloaders'[d].disposeRm = r.disposeRm + 1
                            /\ UNCHANGED <<disk, rmFailed>>
        /\ rmFailed' # rmFailed => UNCHANGED <<downloaders, lastCall>> ]_vars

\* The deletion a first dispose issued on a successful Downloader failed:
\* the folder is still there.
C5_Witness ==
    \E d \in Ids :
        /\ downloaders[d]._disposed
        /\ downloaders[d].disposeRm = 1
        /\ ~HasOp(downloaders[d], "rmdirRecursive")
        /\ downloaders[d].jobFolder \in rmFailed
        /\ Exists(downloaders[d].jobFolder)

StateStep(from, to) ==
    \/ from = to
    \/ from = "NotStarted" /\ to = "Running"
    \/ from = "Running" /\ to = "Completed"

\* C6: a Downloader only moves NotStarted -> Running -> Completed, and once
\* disposed it stays disposed whatever is called or settles later.
C6_Lifecycle ==
    [][ \A d \in Ids :
            /\ StateStep(State(downloaders[d]), State(downloaders'[d]))
            /\ downloaders[d]._disposed => downloaders'[d]._disposed ]_vars

\* A Downloader disposed before its job settled (dispose deleted nothing),
\* then Completed with success, still disposed.
C6_Witness ==
    \E d \in Ids :
        /\ downloaders[d]._disposed
        /\ downloaders[d].disposeRm = 0
        /\ State(downloaders[d]) = "Completed"
        /\ downloaders[d].folderPath # NULL

\* C7: creating a Downloader only increments the counter and adds the
\* Downloader: the disk, the deletions and the other Downloaders are left
\* alone; and as long as a Downloader is NotStarted its job has issued
\* nothing and its folder does not exist.
C7_CreateDoesNoWork ==
    [][ /\ Len(downloaders') > Len(downloaders) =>
              /\ _id' = _id + 1
              /\ UNCHANGED <<disk, rmPending, rmFailed>>
              /\ SubSeq(downloaders', 1, Len(downloaders)) = downloaders
        /\ \A d \in 1..Len(downloaders') :
              LET r == downloaders'[d] IN
              State(r) = "NotStarted" =>
                  /\ r.ops = <<>>
                  /\ r.pc = "idle"
                  /\ ~r.resolved
                  /\ r.jobFolder \notin DOMAIN disk' ]_vars

\* A json Downloader with a full payload was just created.
C7_Witness ==
    \E d \in Ids :
        /\ lastCall = [op |-> "create", d |-> d, noop |-> FALSE]
        /\ downloaders[d].kind = "json"
        /\ Len(downloaders[d].images) = MaxImages
        /\ State(downloaders[d]) = "NotStarted"

\* C8: once a url job got a response with a status outside [200, 400), its
\* result is (absent, bad-response message with the URL and the status),
\* whatever finish and error events follow; after a response with a status
\* inside [200, 400) and a finish with no error, its result is its folder.
C8_BadStatusWins ==
    \A d \in Ids :
        LET r == downloaders[d]
            inBand == MinGoodStatus <= r.statusCode /\ r.statusCode < MinBadStatus
            message == <<"failed to download URL", FetchUrl, "got response status", r.statusCode>>
        IN  (r.kind = "url" /\ "response" \in r.events) =>
                /\ ~inBand =>
                      /\ r.resolved
                      /\ r.result = [folderPath |-> NULL, userError |-> message]
                      /\ r.settled => (r.folderPath = NULL /\ r.userError = message)
                /\ (inBand /\ "finish" \in r.events /\ "error" \notin r.events) =>
                      /\ r.resolved
                      /\ r.result = [folderPath |-> r.jobFolder, userError |-> NULL]

\* A bad response was followed by both a finish and an error event.
C8_Witness ==
    \E d \in Ids :
        /\ downloaders[d].kind = "url"
        /\ downloaders[d].events = {"response", "finish", "error"}
        /\ downloaders[d].statusCode = MinBadStatus
        /\ downloaders[d].settled
        /\ downloaders[d].userError = LoadingBadResponse(FetchUrl, MinBadStatus)

\* C9: a url job that failed after its folder was created (bad response
\* status or stream error) has deleted the folder: once the failure is
\* settled the job has issued the deletion, and the folder is gone unless
\* that deletion is still under way or failed.
C9_UrlFailureDeletesFolder ==
    \A d \in Ids :
        LET r == downloaders[d] IN
        (r.kind = "url" /\ r.settled /\ r.folderPath = NULL /\ HasOp(r, "request.get")) =>
            /\ HasOp(r, "rmdirRecursive")
            /\ Exists(r.jobFolder) => r.jobFolder \in rmPending \cup rmFailed

FirstInvalid(images) ==
    LET invalid == { i \in 1..Len(images) : dataUriRE_exec(images[i].imageDataUrl) = NULL }
    IN  IF invalid = {} THEN 0 ELSE CHOOSE i \in invalid : \A j \in invalid : i <= j

ExpectedWrites(k) == <<TextFileName>> \o [i \in 1..(k - 1) |-> ImageName(i)]

\* C10: in a json job whose first image with a malformed data URI is image k,
\* only the text file and the images before k are ever written, in array
\* order, and inkscape is never invoked; and when no write failed before,
\* the job writes all of them, then deletes the folder and returns (absent,
\* the user error naming image k): the folder is gone once that deletion is
\* carried out, unless it failed.
C10_FirstBadImageAborts ==
    \A d \in Ids :
        LET r == downloaders[d]
            k == FirstInvalid(r.images)
        IN  (r.kind = "json" /\ k # 0) =>
                /\ IsPrefix(FilesWritten(r), ExpectedWrites(k))
                /\ ~HasOp(r, "inkscape")
                /\ (r.pc = "done" /\ ~r.ioFailed) =>
                      /\ FilesWritten(r) = ExpectedWrites(k)
                      /\ r.result = [folderPath |-> NULL,
                                     userError |-> <<"failed to save image", ImageName(k),
                                                     "expected image data URI">>]
                      /\ r.ops[Len(r.ops)].op = "rmdirRecursive"
                      /\ Exists(r.jobFolder) => r.jobFolder \in rmPending \cup rmFailed

\* The second of two images is malformed: the job wrote the text and the
\* first image, settled with the error naming the second, and the folder is
\* deleted.
C10_Witness ==
    \E d \in Ids :
        LET r == downloaders[d] IN
        /\ r.kind = "json"
        /\ FirstInvalid(r.images) = 2
        /\ r.settled
        /\ r.userError = ImageDataUrlExtractionFailed(ImageName(2))
        /\ ~Exists(r.jobFolder)
        /\ rmPending = {}
        /\ rmFailed = {}

\* The inkscape options of an image hold an export-width that is no number.
BadWidth(img) ==
    /\ img.inkscape.present
    /\ \E k \in 1..Len(img.inkscape.entries) :
          /\ img.inkscape.entries[k][1] = "export-width"
          /\ img.inkscape.entries[k][2].chars \in {<<>>, <<"n", "a", "n">>}

FirstBadWidth(images) ==
    LET bad == { i \in 1..Len(images) : BadWidth(images[i]) }
    IN  IF bad = {} THEN 0 ELSE CHOOSE i \in bad : \A j \in bad : i <= j

InkscapeFiles(r) ==
    LET calls == SelectSeq(r.ops, LAMBDA o : o.op = "inkscape")
    IN  [k \in 1..Len(calls) |-> calls[k].file]

HasRmdir(r) == \E k \in 1..Len(r.ops) : r.ops[k].op \in {"rmdir", "rmdirRecursive"}

\* C11: in a json job whose first image with a non-numeric export-width is
\* image k, inkscape is never invoked for image k nor for a later one; and
\* when every data URI is well-formed and no write or inkscape run failed,
\* the job returns (absent, absent), has issued no deletion, and its folder
\* stays on disk; with one image only, inkscape is never invoked.
C11_BadTransformAborts ==
    \A d \in Ids :
        LET r == downloaders[d]
            k == FirstBadWidth(r.images)
        IN  (r.kind = "json" /\ k # 0) =>
                /\ \A c \in 1..Len(InkscapeFiles(r)) :
                      \E j \in 1..(k - 1) : InkscapeFiles(r)[c] = ImageName(j)
                /\ Len(r.images) = 1 => ~HasOp(r, "inkscape")
                /\ (r.pc = "done" /\ ~r.ioFailed /\ FirstInvalid(r.images) = 0) =>
                      /\ r.result = [folderPath |-> NULL, userError |-> NULL]
                      /\ ~HasRmdir(r)
                      /\ Exists(r.jobFolder)
                      /\ r.jobFolder \notin rmPending \cup rmFailed
                      /\ r.settled => (r.folderPath = NULL /\ r.userError = NULL)

\* The second of two images has a non-numeric export-width: inkscape ran
\* for the first image only, the job settled with (absent, absent), and the
\* folder with the three files is on disk, also after a dispose.
C11_Witness ==
    \E d \in Ids :
        LET r == downloaders[d] IN
        /\ r.kind = "json"
        /\ FirstBadWidth(r.images) = 2
        /\ InkscapeFiles(r) = <<ImageName(1)>>
        /\ r.settled
        /\ r._disposed
        /\ r.folderPath = NULL
        /\ r.userError = NULL
        /\ ~r.ioFailed
        /\ Exists(r.jobFolder)
        /\ disk[r.jobFolder] = {TextFileName, ImageName(1), ImageName(2)}

AllowedOptions == {"export-png", "export-area", "export-width", "export-height"}

AllowedFlagHeads == {"--export-png=", "--export-area=", "--export-width=", "--export-height="}

HasOtherOption(img) ==
    /\ img.inkscape.present
    /\ \E k \in 1..Len(img.inkscape.entries) : img.inkscape.entries[k][1] \notin AllowedOptions

\* C12: inkscape is never invoked for an image whose options hold a key
\* other than export-png, export-area, export-width, export-height (names
\* every object inherits included), and the flags inkscape is invoked with
\* are --without-gui, --file=<image> and flags the four builders built.
C12_UnknownOptionsRejected ==
    \A d \in Ids :
        LET r == downloaders[d] IN
        r.kind = "json" =>
            \A c \in 1..Len(r.ops) :
                r.ops[c].op = "inkscape" =>
                    /\ \A i \in 1..Len(r.images) :
                          HasOtherOption(r.images[i]) => r.ops[c].file # ImageName(i)
                    /\ r.ops[c].flags[1] = <<"--without-gui">>
                    /\ r.ops[c].flags[2][1] = "--file="
                    /\ \A f \in 3..Len(r.ops[c].flags) : r.ops[c].flags[f][1] \in AllowedFlagHeads

\* C13: a git job never issues a deletion, and one whose clone failed
\* returns (absent, the clone-failure message naming the URL); a json job
\* whose option building threw or whose inkscape run failed returns (absent,
\* absent) and has issued no deletion.  In both cases nothing deletes the
\* folder afterwards: what is at the path stays on disk.
C13_GitAndTransformFailuresKeepFolder ==
    \A d \in Ids :
        LET r == downloaders[d]
            kept == /\ ~HasRmdir(r)
                    /\ r.disposeRm = 0
                    /\ r.jobFolder \notin rmPending \cup rmFailed
        IN  /\ r.kind = "git" => ~HasRmdir(r)
            /\ (r.kind = "git" /\ r.pc = "done" /\ r.ioFailed) =>
                  /\ r.result = [folderPath |-> NULL,
                                 userError |-> <<"failed to clone git repository", GitUrl>>]
                  /\ kept
            /\ (/\ r.kind = "json"
                /\ r.pc = "done"
                /\ r.result.folderPath = NULL
                /\ FirstInvalid(r.images) = 0
                /\ ~r.ioFailed \/ HasOp(r, "inkscape")) =>
                  /\ r.result = [folderPath |-> NULL, userError |-> NULL]
                  /\ kept
                  /\ Exists(r.jobFolder)

\* A git clone failed and left a folder: the Downloader settled with the
\* message and was disposed, and the folder is there.
C13_Witness ==
    /\ \E d \in Ids :
          LET r == downloaders[d] IN
          /\ r.kind = "git"
          /\ r.pc = "done"
          /\ r.ioFailed
          /\ r.settled
          /\ r.userError = GitCloneFailed(GitUrl)
          /\ r._disposed
          /\ Exists(r.jobFolder)
    /\ rmPending = {}

\* C14: a text, tarball or json job that failed at its mkdir has issued no
\* deletion and returns (absent, absent); one that failed at a file write or
\* at the extraction issued a deletion of its folder as its last operation
\* and returns an absent folderPath (with the extraction-failure message
\* for a tarball, no message otherwise).
C14_WriteFailuresDeleteFolder ==
    \A d \in Ids :
        LET r == downloaders[d] IN
        (/\ r.kind \in {"text", "tarball", "json"}
         /\ r.pc = "done"
         /\ r.ioFailed
         /\ ~HasOp(r, "inkscape")) =>
            IF Len(r.ops) = 1
            THEN /\ r.ops[1].op = "mkdir"
                 /\ r.result = [folderPath |-> NULL, userError |-> NULL]
                 /\ r.jobFolder \notin rmPending \cup rmFailed
            ELSE /\ r.ops[Len(r.ops) - 1].op \in {"writeFile", "tar"}
                 /\ r.ops[Len(r.ops)].op \in {"rmdir", "rmdirRecursive"}
                 /\ r.result.folderPath = NULL
                 /\ r.result.userError =
                        IF r.kind = "tarball" THEN <<"failed to extract tarball">> ELSE NULL
                 /\ Exists(r.jobFolder) => r.jobFolder \in rmPending \cup rmFailed

\* The write of the second image of a json job failed: the job settled
\* without a folder, and the folder is deleted.
C14_Witness ==
    /\ \E d \in Ids :
          LET r == downloaders[d] IN
          /\ r.kind = "json"
          /\ FilesWritten(r) = ExpectedWrites(3)
          /\ r.ioFailed
          /\ r.settled
          /\ r.folderPath = NULL
          /\ HasRmdir(r)
          /\ ~Exists(r.jobFolder)
    /\ rmPending = {}
    /\ rmFailed = {}

\* The images carrying inkscape options, in array order.
Transformed(images) ==
    LET sel == SelectSeq([i \in 1..Len(images) |-> i], LAMBDA i : images[i].inkscape.present)
    IN  [k \in 1..Len(sel) |-> ImageName(sel[k])]

\* The operations of a json job so far are in the order of the input.
InInputOrder(r) ==
    /\ IsPrefix(FilesWritten(r), ExpectedWrites(Len(r.images) + 1))
    /\ IsPrefix(InkscapeFiles(r), Transformed(r.images))
    /\ HasOp(r, "inkscape") => FilesWritten(r) = ExpectedWrites(Len(r.images) + 1)
    /\ \A a, b \in 1..Len(r.ops) :
          (a < b /\ r.ops[a].op = "inkscape") => r.ops[b].op = "inkscape"
    /\ r.result.folderPath # NULL => InkscapeFiles(r) = Transformed(r.images)

\* A step issues at most one write or inkscape run, and only as the
\* continuation of the operation the job was awaiting, which it then awaits.
OneAtATime(old, new) ==
    LET added == SubSeq(new.ops, Len(old.ops) + 1, Len(new.ops))
        work == SelectSeq(added, LAMBDA o : o.op \in {"writeFile", "inkscape"})
    IN  /\ Len(work) <= 1
        /\ Len(work) = 1 =>
              /\ old.pc \in {"mkdir", "write", "image", "inkscape"}
              /\ new.pc \in {"write", "image", "inkscape"}
              /\ new.ops[Len(new.ops)] = work[1]
        /\ new.pc \in {"write", "image"} => new.ops[Len(new.ops)].op = "writeFile"
        /\ new.pc = "inkscape" => new.ops[Len(new.ops)].op = "inkscape"

\* C15: a json job writes the text file, then the images in array order,
\* then runs inkscape once for each image carrying options, in array order
\* and only after every image was written; and it issues a write or an
\* inkscape run only when the outcome of the previous one arrived.
C15_JsonStepsSequential ==
    [][ \A d \in 1..Len(downloaders') :
            downloaders'[d].kind = "json" =>
                /\ InInputOrder(downloaders'[d])
                /\ d \in Ids => OneAtATime(downloaders[d], downloaders'[d]) ]_vars

\* Two images both carrying options: both written, then inkscape ran for
\* the first, then for the second, and the job succeeded.
C15_Witness ==
    \E d \in Ids :
        LET r == downloaders[d] IN
        /\ r.kind = "json"
        /\ FilesWritten(r) = <<TextFileName, ImageName(1), ImageName(2)>>
        /\ InkscapeFiles(r) = <<ImageName(1), ImageName(2)>>
        /\ r.settled
        /\ r.folderPath = r.jobFolder

\* C16: the folderPath and userError of a Downloader are absent until its
\* job settled, are written then with the job's result, and never change
\* afterwards; and the result of a job, once it has one, never changes,
\* whatever events follow.
C16_ResultWrittenOnce ==
    [][ \A d \in Ids :
            LET old == downloaders[d]
                new == downloaders'[d]
            IN  /\ ~new.settled => (new.folderPath = NULL /\ new.userError = NULL)
                /\ old.settled =>
                      /\ new.settled
                      /\ new.folderPath = old.folderPath
                      /\ new.userError = old.userError
                /\ (~old.settled /\ new.settled) =>
                      /\ old.resolved
                      /\ new.folderPath = old.result.folderPath
                      /\ new.userError = old.result.userError
                /\ old.resolved => (new.resolved /\ new.result = old.result) ]_vars

\* A url job settled with its folder at the finish event, and an error
\* event arrived afterwards: the Downloader still holds the folder.
C16_Witness ==
    \E d \in Ids :
        LET r == downloaders[d] IN
        /\ r.kind = "url"
        /\ r.events = {"response", "finish", "error"}
        /\ r.settled
        /\ r.folderPath = r.jobFolder
        /\ r.userError = NULL

\* C17: a git job that finds its path existing returns (absent, absent),
\* issues nothing and leaves the disk alone, and what is at the path is
\* never changed or deleted afterwards; git clone is issued only by the
\* step that found the path not existing.
C17_ExistingPathUntouched ==
    [][ \A d \in Ids :
            LET old == downloaders[d]
                new == downloaders'[d]
            IN  old.kind = "git" =>
                /\ (old.pc = "exists" /\ new.pc # "exists" /\ Exists(old.jobFolder)) =>
                      /\ new.pc = "done"
                      /\ new.result = [folderPath |-> NULL, userError |-> NULL]
                      /\ new.ops = old.ops
                      /\ UNCHANGED <<disk, rmPending, rmFailed>>
                /\ (~HasOp(old, "git clone") /\ HasOp(new, "git clone")) =>
                      /\ old.pc = "exists"
                      /\ ~Exists(old.jobFolder)
                /\ (old.pc = "done" /\ ~HasOp(old, "git clone")) =>
                      /\ old.jobFolder \in DOMAIN disk'
                      /\ disk'[old.jobFolder] = disk[old.jobFolder]
                      /\ old.jobFolder \notin rmPending' ]_vars

\* A git Downloader found a foreign folder at its path: it settled with
\* (absent, absent), never cloned, was disposed, and the folder is as it was.
C17_Witness ==
    \E d \in Ids :
        LET r == downloaders[d] IN
        /\ r.kind = "git"
        /\ r.settled
        /\ r.folderPath = NULL
        /\ r.userError = NULL
        /\ ~HasOp(r, "git clone")
        /\ r._disposed
        /\ Exists(r.jobFolder)
        /\ disk[r.jobFolder] = {<<"foreign">>}

\* C18: once a Downloader is disposed and its job has settled with success,
\* in whichever order, its folder is eventually gone from the disk, unless
\* a deletion of it failed.
C18_DisposeReclaimsWheneverCalled ==
    \A d \in 1..MaxDownloaders :
        (/\ d \in Ids
         /\ downloaders[d]._disposed
         /\ downloaders[d].settled
         /\ downloaders[d].folderPath # NULL)
        ~> (/\ d \in Ids
            /\ \/ ~Exists(downloaders[d].jobFolder)
               \/ downloaders[d].jobFolder \in rmFailed)

\* C19: while a Downloader holds a folderPath and was not disposed, its
\* folder is on disk and no deletion of it is under way; and a job whose
\* result is its folder has issued no deletion.
C19_SuccessFolderExists ==
    \A d \in Ids :
        LET r == downloaders[d] IN
        /\ (r.result.folderPath # NULL) => ~HasRmdir(r)
        /\ (r.settled /\ r.folderPath # NULL /\ ~r._disposed) =>
              /\ Exists(r.jobFolder)
              /\ r.jobFolder \notin rmPending

====
